---- MODULE Spec2Model ----
(***************************************************************************)
(* expense_genie: the ingestion pipeline (process_pdf) and the query       *)
(* pipeline (ask_question_route) of src/app/models.py and                  *)
(* src/app/routes.py, over the single table `expenses`.                    *)
(*                                                                         *)
(* Texts are sequences of tokens.  An extraction reply is a sequence of    *)
(* JSON tokens ("[", "]", ",", scalar literals and object literals); a     *)
(* query reply is a sequence over the regex literal "SELECT ", the         *)
(* delimiter ";", whitespace, two query bodies and a writing statement.    *)
(***************************************************************************)
EXTENDS Integers, Sequences, FiniteSets

\* ---------------------------------------------------------------- bounds
MaxBatch == 3      \* elements in one extraction reply's array
MaxRows == 2       \* rows the table may come to hold
MaxReplyLen == 5   \* tokens in one query-synthesis reply

\* ------------------------------------------------------------- sequences
RECURSIVE SeqsUpTo(_, _)
SeqsUpTo(S, n) ==
  IF n = 0 THEN {<<>>}
  ELSE LET shorter == SeqsUpTo(S, n - 1)
       IN shorter \cup {Append(s, x) : s \in {t \in shorter : Len(t) = n - 1}, x \in S}

\* str.strip(): leading and trailing whitespace removed
RECURSIVE LStrip(_)
LStrip(s) == IF s # <<>> /\ Head(s) = " " THEN LStrip(Tail(s)) ELSE s

RECURSIVE RStrip(_)
RStrip(s) ==
  IF s # <<>> /\ s[Len(s)] = " " THEN RStrip(SubSeq(s, 1, Len(s) - 1)) ELSE s

Strip(s) == RStrip(LStrip(s))

\* ------------------------------------------------------ extraction reply
\* The keys insert_expenses_into_db reads from each expense.
Keys == {"date", "account", "amount", "category"}

\* JSON null, bound by sqlite3 as NULL.
NULL == "NULL"

\* Object literals a reply may hold, by token, with the dict json.loads
\* builds from each.
ObjectOf(tok) ==
  CASE tok = "objA" ->
         [date |-> "2024-01-05", account |-> "RAJ", amount |-> "-20.00",
          category |-> "transfers"]
    [] tok = "objB" ->
         [date |-> "2024-01-07", account |-> "SHELL", amount |-> "-45.10",
          category |-> "food"]
    [] tok = "objNullDate" ->
         [date |-> NULL, account |-> "SHELL", amount |-> "-45.10",
          category |-> "food"]
    [] tok = "objNoCategory" ->
         [date |-> "2024-01-09", account |-> "TED", amount |-> "12.00"]

ObjectTokens == {"objA", "objB", "objNullDate", "objNoCategory"}
ScalarTokens == {"null", "7", "\"RAJ\""}
ValueTokens == ObjectTokens \cup ScalarTokens

\* Python values: None, a number, a string, a dict, a list.
None == [t |-> "none"]
Unset == [t |-> "unset"]

ValueOf(tok) ==
  CASE tok = "null" -> None
    [] tok = "7" -> [t |-> "num"]
    [] tok = "\"RAJ\"" -> [t |-> "str", n |-> 3]
    [] tok \in ObjectTokens -> [t |-> "dict", d |-> ObjectOf(tok)]

\* The elements of "e1 , e2 , ... , en": values at the odd places, commas
\* at the even ones.
IsElementList(s) ==
  /\ Len(s) % 2 = 1
  /\ \A i \in 1..Len(s) :
       IF i % 2 = 1 THEN s[i] \in ValueTokens ELSE s[i] = ","

ElementValues(s) == [k \in 1..((Len(s) + 1) \div 2) |-> ValueOf(s[2 * k - 1])]

\* json.loads(content): [err |-> TRUE] for ValueError (JSONDecodeError),
\* else the value.
JsonLoads(content) ==
  IF Len(content) = 1 /\ content[1] \in ValueTokens
  THEN [err |-> FALSE, v |-> ValueOf(content[1])]
  ELSE IF Len(content) >= 2 /\ content[1] = "[" /\ content[Len(content)] = "]"
  THEN LET inner == SubSeq(content, 2, Len(content) - 1)
       IN IF inner = <<>>
          THEN [err |-> FALSE, v |-> [t |-> "list", items |-> <<>>]]
          ELSE IF IsElementList(inner)
          THEN [err |-> FALSE, v |-> [t |-> "list", items |-> ElementValues(inner)]]
          ELSE [err |-> TRUE, v |-> None]
  ELSE [err |-> TRUE, v |-> None]

\* The text of a JSON array of the given element tokens.
RECURSIVE Render(_)
Render(es) ==
  IF es = <<>> THEN <<"[", "]">>
  ELSE IF Len(es) = 1 THEN <<"[", es[1], "]">>
  ELSE LET r == Render(SubSeq(es, 1, Len(es) - 1))
       IN SubSeq(r, 1, Len(r) - 1) \o <<",", es[Len(es)], "]">>

ElementLists == SeqsUpTo(ObjectTokens \cup {"7"}, MaxBatch)

\* What the extraction model may reply: arrays, arrays cut short (max
\* tokens reached), bare scalars and objects, prose, nothing.
Contents ==
  {Render(es) : es \in ElementLists}
    \cup {SubSeq(Render(es), 1, Len(Render(es)) - 1) : es \in ElementLists}
    \cup {<<tok>> : tok \in ValueTokens}
    \cup {<<>>, <<"prose">>, <<"prose", "[", "objA", "]">>, <<"[", "objA", ",", "]">>}

\* ------------------------------------------------------------------ state
VARIABLES
  table,     \* whether table expenses exists in expenses.db
  store,     \* the rows of table expenses, in rowid order
  pc,        \* where the running request is: "idle" between requests
  op,        \* the request running or last run: "none", "upload", "ask"
  pre,       \* store as it was when that request began
  content,   \* the extraction model's reply text
  expenses,  \* what extract_expenses_from_html returned
  reply,     \* the query-synthesis model's reply text
  query,     \* what generate_query returned (<<>> for None)
  data,      \* what fetch_data returned (<<>> for None)
  answer,    \* what generate_answer returned
  outcome,   \* how the request ended; "none" while it runs
  log        \* the remote calls and store accesses of the request, in order

vars == <<table, store, pc, op, pre, content, expenses, reply, query, data, answer,
          outcome, log>>

\* ------------------------------------------------------------ the table
SameFields(r, e) ==
  /\ r.date = e.date
  /\ r.account = e.account
  /\ r.amount = e.amount
  /\ r.category = e.category

\* InsertRow as INSERT OR IGNORE under a uniqueness constraint on the four
\* columns: a record already held is not added again.
InsertRowIgnoreDuplicate(rows, e) ==
  IF \E i \in 1..Len(rows) : SameFields(rows[i], e) THEN rows
  ELSE Append(rows, [id |-> Len(rows) + 1, date |-> e.date,
                     account |-> e.account, amount |-> e.amount,
                     category |-> e.category])

\* INSERT INTO expenses (date, account, amount, category) VALUES (?,?,?,?)
\* with id INTEGER PRIMARY KEY AUTOINCREMENT.
InsertRow(rows, e) ==
  Append(rows, [id |-> Len(rows) + 1, date |-> e.date, account |-> e.account,
                amount |-> e.amount, category |-> e.category])

\* `for expense in expenses`: a list yields its items; a dict yields its
\* keys, which are strings; a string yields its characters; a number is
\* not iterable (TypeError).
Iterable(v) == v.t \in {"list", "dict", "str"}

Items(v) ==
  IF v.t = "list" THEN v.items
  ELSE IF v.t = "dict" THEN [i \in 1..Cardinality(DOMAIN v.d) |-> [t |-> "str", n |-> 1]]
  ELSE [i \in 1..v.n |-> [t |-> "str", n |-> 1]]

\* expense['date'], expense['account'], ...: KeyError on a dict without
\* the key, TypeError on anything that is not a dict.
Subscriptable(e) == e.t = "dict" /\ Keys \subseteq DOMAIN e.d

\* The loop of insert_expenses_into_db over items[i..]: the rows of the
\* open transaction, and whether an item raised.
RECURSIVE InsertLoop(_, _, _)
InsertLoop(items, i, rows) ==
  IF i > Len(items) THEN [raised |-> FALSE, rows |-> rows]
  ELSE IF ~Subscriptable(items[i]) THEN [raised |-> TRUE, rows |-> rows]
  ELSE InsertLoop(items, i + 1, InsertRow(rows, items[i].d))

\* insert_expenses_into_db(expenses): conn.commit() is reached only when
\* no statement raised; a connection dropped without commit rolls its
\* transaction back.
InsertExpensesIntoDb(v, rows) ==
  IF ~Iterable(v) THEN [raised |-> TRUE, rows |-> rows]
  ELSE LET r == InsertLoop(Items(v), 1, rows)
       IN IF r.raised THEN [raised |-> TRUE, rows |-> rows]
          ELSE [raised |-> FALSE, rows |-> r.rows]

\* ---------------------------------------------------- ingestion pipeline
\* The object literals of a reply that carry every key: the most rows an
\* insert of it can add.
NumInsertable(c) ==
  Cardinality({i \in 1..Len(c) :
                 c[i] \in ObjectTokens /\ Keys \subseteq DOMAIN ObjectOf(c[i])})

\* upload_pdf (POST with a file): process_pdf(file_path) begins.
UploadPdf ==
  /\ pc = "idle"
  /\ pc' = "parse_pdf"
  /\ op' = "upload"
  /\ pre' = store
  /\ content' = <<>>
  /\ expenses' = Unset
  /\ reply' = <<>>
  /\ query' = <<>>
  /\ data' = <<>>
  /\ answer' = <<>>
  /\ outcome' = "none"
  /\ log' = <<>>
  /\ UNCHANGED <<table, store>>

\* ParsePdf with the failure of the document-parse request swallowed: the
\* pipeline goes on to the extraction call.
ParsePdfSwallow ==
  /\ pc = "parse_pdf"
  /\ \E ok \in BOOLEAN :
       /\ log' = Append(log, IF ok THEN "parse:ok" ELSE "parse:fail")
       /\ pc' = "extract"
       /\ UNCHANGED outcome
  /\ UNCHANGED <<table, store, op, pre, content, expenses, reply, query, data, answer>>

\* parse_pdf up to the call of extract_expenses_from_html: the
\* document-parse request; raise_for_status() or a reply without
\* content.html raises out of process_pdf.
ParsePdf ==
  /\ pc = "parse_pdf"
  /\ \E ok \in BOOLEAN :
       IF ok
       THEN /\ log' = Append(log, "parse:ok")
            /\ pc' = "extract"
            /\ UNCHANGED outcome
       ELSE /\ log' = Append(log, "parse:fail")
            /\ pc' = "idle"
            /\ outcome' = "raised"
  /\ UNCHANGED <<table, store, op, pre, content, expenses, reply, query, data, answer>>

\* extract_expenses_from_html: one chat completion; an exception is
\* re-raised; no choices returns None; else json.loads of the content,
\* None on ValueError.  process_pdf then tests `expenses is not None`.
ExtractExpenses ==
  /\ pc = "extract"
  /\ \/ /\ log' = Append(log, "extract:fail")
        /\ pc' = "idle"
        /\ outcome' = "raised"
        /\ UNCHANGED <<content, expenses>>
     \/ /\ log' = Append(log, "extract:ok")
        /\ pc' = "idle"
        /\ outcome' = "no_expenses"
        /\ expenses' = None
        /\ UNCHANGED content
     \/ \E c \in Contents :
          /\ NumInsertable(c) <= MaxRows - Len(store)
          /\ LET parsed == JsonLoads(c)
                 e == IF parsed.err THEN None ELSE parsed.v
             IN /\ log' = Append(log, "extract:ok")
                /\ content' = c
                /\ expenses' = e
                /\ IF e = None
                   THEN pc' = "idle" /\ outcome' = "no_expenses"
                   ELSE pc' = "insert" /\ UNCHANGED outcome
  /\ UNCHANGED <<table, store, op, pre, reply, query, data, answer>>

\* process_pdf, `if expenses is not None`: insert_expenses_into_db, then
\* return expenses.  CREATE TABLE IF NOT EXISTS comes first and, being DDL,
\* stays whether or not the inserts after it are committed.
InsertExpenses ==
  /\ pc = "insert"
  /\ LET r == InsertExpensesIntoDb(expenses, store)
     IN /\ store' = r.rows
        /\ outcome' = IF r.raised THEN "raised" ELSE "returned"
  /\ table' = TRUE
  /\ log' = Append(log, "insert")
  /\ pc' = "idle"
  /\ UNCHANGED <<op, pre, content, expenses, reply, query, data, answer>>

\* --------------------------------------------------------- query reply
\* The tokens of a query-synthesis reply: the regex's literal 'SELECT ',
\* the delimiter, whitespace, the body of a row query, the body of an
\* aggregate query, and the text of a statement that writes.
SELECT == "SELECT "
FoodBody == "* FROM expenses WHERE category = 'food'"
SumBody == "SUM(amount) FROM expenses WHERE category = 'food'"
DeleteStmt == "DELETE FROM expenses"
QueryTokens == {SELECT, ";", FoodBody, SumBody, DeleteStmt}

\* What the query model may reply: any text of these tokens, bare or with
\* whitespace around it and after its first token.
Replies ==
  SeqsUpTo(QueryTokens, MaxReplyLen)
    \cup {<<" ">> \o r \o <<" ">> : r \in SeqsUpTo(QueryTokens, MaxReplyLen - 2)}
    \cup {<<Head(r), " ">> \o Tail(r) :
            r \in SeqsUpTo(QueryTokens, MaxReplyLen - 1) \ {<<>>}}

Positions(s, tok) == {i \in 1..Len(s) : s[i] = tok}

Min(S) == CHOOSE x \in S : \A y \in S : x <= y
Max(S) == CHOOSE x \in S : \A y \in S : x >= y

\* RegexSearch with the pattern r'SELECT .*': no delimiter asked for, the
\* match runs to the end of the text.
RegexSearchUnterminated(text) ==
  IF Positions(text, SELECT) = {} THEN <<>>
  ELSE SubSeq(text, Min(Positions(text, SELECT)), Len(text))

\* re.search(r'SELECT .*;', text, re.DOTALL): the leftmost 'SELECT ' that
\* a ';' follows, and, `.*` being greedy and DOTALL, on to the last ';'.
\* <<>> for no match.
RegexSearch(text) ==
  LET starts == {i \in Positions(text, SELECT) :
                   \E j \in Positions(text, ";") : j > i}
  IN IF starts = {} THEN <<>>
     ELSE SubSeq(text, Min(starts), Max(Positions(text, ";")))

\* generate_query, from the reply's content on: match.group(0).strip(),
\* or None (<<>>).
QueryFromReply(text) ==
  LET match == RegexSearch(text)
  IN IF match # <<>> THEN Strip(match) ELSE <<>>

\* ---------------------------------------------------------- fetch_data
NonSpace(s) == SelectSeq(s, LAMBDA tok : tok # " ")

\* The statement sqlite3 prepares: the text up to and with the first ';'
\* (all of it when there is none), and the tail left after it.
FirstStatement(q) ==
  IF Positions(q, ";") = {} THEN q ELSE SubSeq(q, 1, Min(Positions(q, ";")))

TailAfter(q) ==
  IF Positions(q, ";") = {} THEN <<>>
  ELSE SubSeq(q, Min(Positions(q, ";")) + 1, Len(q))

\* The first statement compiles (else OperationalError: syntax error).
Compiles(stmt) ==
  NonSpace(stmt) \in {<<SELECT, FoodBody>>, <<SELECT, FoodBody, ";">>,
                      <<SELECT, SumBody>>, <<SELECT, SumBody, ";">>,
                      <<DeleteStmt>>, <<DeleteStmt, ";">>}

IsSelect(stmt) == NonSpace(stmt)[1] = SELECT

\* The rows SELECT * FROM expenses WHERE category = 'food' yields.
FoodRows(rows) == SelectSeq(rows, LAMBDA r : r.category = "food")

\* The result set of a compiled SELECT: the matching rows, or, for the
\* aggregate, always one row, its column NULL when no row matches.
ResultSet(stmt, rows) ==
  IF NonSpace(stmt)[2] = SumBody
  THEN <<[sum |-> IF FoodRows(rows) = <<>> THEN NULL ELSE "-45.10"]>>
  ELSE FoodRows(rows)

\* cursor.fetchone(): <<>> for None, else the first row.
FetchOne(result) == IF result = <<>> THEN <<>> ELSE <<result[1]>>

\* FetchData as cursor.executescript(query) followed by conn.commit():
\* every statement of the text is run, in order.
RECURSIVE RunScript(_, _)
RunScript(q, rows) ==
  IF NonSpace(q) = <<>> \/ ~Compiles(FirstStatement(q)) THEN rows
  ELSE RunScript(TailAfter(q), IF IsSelect(FirstStatement(q)) THEN rows ELSE <<>>)

FetchDataScript(q, rows) ==
  [raised |-> FALSE, data |-> <<>>, rows |-> RunScript(q, rows)]

\* cursor.execute(query); cursor.fetchone(); conn.close() without commit.
\* execute() prepares one statement (OperationalError when it does not
\* compile or the table is not there) and refuses text with anything but
\* whitespace after it ("You can only execute one statement at a time").
\* A statement that is no SELECT yields no row, and what it wrote is rolled
\* back when the connection closes.  rows is the table afterwards.
FetchData(q, rows) ==
  IF ~table \/ ~Compiles(FirstStatement(q)) \/ NonSpace(TailAfter(q)) # <<>>
  THEN [raised |-> TRUE, data |-> <<>>, rows |-> rows]
  ELSE IF IsSelect(FirstStatement(q))
  THEN [raised |-> FALSE,
        data |-> FetchOne(ResultSet(FirstStatement(q), rows)),
        rows |-> rows]
  ELSE [raised |-> FALSE, data |-> <<>>, rows |-> rows]

\* -------------------------------------------------------- query pipeline
\* What the answer model may reply.
AnswerTexts == {<<>>, <<"total">>, <<" ", "total", " ">>}

\* ask_question_route, to the call of generate_query: a missing or empty
\* question is answered 400 at once.
AskQuestion ==
  /\ pc = "idle"
  /\ op' = "ask"
  /\ pre' = store
  /\ content' = <<>>
  /\ expenses' = Unset
  /\ reply' = <<>>
  /\ query' = <<>>
  /\ data' = <<>>
  /\ answer' = <<>>
  /\ log' = <<>>
  /\ \E question \in {"", "how much on food?"} :
       IF question = ""
       THEN pc' = "idle" /\ outcome' = "400_question_required"
       ELSE pc' = "generate_query" /\ outcome' = "none"
  /\ UNCHANGED <<table, store>>

\* GenerateQuery with a failed request tried again.
GenerateQueryRetry ==
  /\ pc = "generate_query"
  /\ \/ /\ log' = Append(log, "query:fail")
        /\ Len(log) < 2
        /\ UNCHANGED <<pc, outcome, reply, query>>
     \/ \E text \in Replies :
          /\ log' = Append(log, "query:ok")
          /\ reply' = text
          /\ query' = QueryFromReply(text)
          /\ IF QueryFromReply(text) = <<>>
             THEN pc' = "idle" /\ outcome' = "500_no_query"
             ELSE pc' = "fetch_data" /\ UNCHANGED outcome
  /\ UNCHANGED <<table, store, op, pre, content, expenses, data, answer>>

\* generate_query and the route's `if not query`: one chat completion; an
\* exception (HTTP error, reply without choices) is re-raised and caught
\* by the route (500 with the error's text); no match is 500 'Failed to
\* generate SQL query'.
GenerateQuery ==
  /\ pc = "generate_query"
  /\ \/ /\ log' = Append(log, "query:fail")
        /\ pc' = "idle"
        /\ outcome' = "500_error"
        /\ UNCHANGED <<reply, query>>
     \/ \E text \in Replies :
          /\ log' = Append(log, "query:ok")
          /\ reply' = text
          /\ query' = QueryFromReply(text)
          /\ IF QueryFromReply(text) = <<>>
             THEN pc' = "idle" /\ outcome' = "500_no_query"
             ELSE pc' = "fetch_data" /\ UNCHANGED outcome
  /\ UNCHANGED <<table, store, op, pre, content, expenses, data, answer>>

\* FetchDataStep without the route's `if not data`: the answer is asked
\* for whatever the row.
FetchDataStepNoCheck ==
  /\ pc = "fetch_data"
  /\ LET r == FetchData(query, store)
     IN /\ store' = r.rows
        /\ data' = r.data
        /\ IF r.raised THEN pc' = "idle" /\ outcome' = "500_error"
           ELSE pc' = "generate_answer" /\ UNCHANGED outcome
  /\ log' = Append(log, "fetch")
  /\ UNCHANGED <<table, op, pre, content, expenses, reply, query, answer>>

\* fetch_data(query) and the route's `if not data`: an exception is caught
\* by the route (500); no row is 404 'No data found for the generated
\* query'.
FetchDataStep ==
  /\ pc = "fetch_data"
  /\ LET r == FetchData(query, store)
     IN /\ store' = r.rows
        /\ data' = r.data
        /\ IF r.raised THEN pc' = "idle" /\ outcome' = "500_error"
           ELSE IF r.data = <<>> THEN pc' = "idle" /\ outcome' = "404_no_data"
           ELSE pc' = "generate_answer" /\ UNCHANGED outcome
  /\ log' = Append(log, "fetch")
  /\ UNCHANGED <<table, op, pre, content, expenses, reply, query, answer>>

\* generate_answer and the route's render_template: one chat completion;
\* an exception is re-raised and caught by the route (500); else the
\* stripped content is the answer.
GenerateAnswer ==
  /\ pc = "generate_answer"
  /\ \/ /\ log' = Append(log, "answer:fail")
        /\ outcome' = "500_error"
        /\ UNCHANGED answer
     \/ \E text \in AnswerTexts :
          /\ log' = Append(log, "answer:ok")
          /\ answer' = Strip(text)
          /\ outcome' = "200_answer"
  /\ pc' = "idle"
  /\ UNCHANGED <<table, store, op, pre, content, expenses, reply, query, data>>

\* The application as started: init_db may or may not have been run, and
\* no row has been written.
Init ==
  /\ table \in BOOLEAN
  /\ store = <<>>
  /\ pc = "idle"
  /\ op = "none"
  /\ pre = <<>>
  /\ content = <<>>
  /\ expenses = Unset
  /\ reply = <<>>
  /\ query = <<>>
  /\ data = <<>>
  /\ answer = <<>>
  /\ outcome = "none"
  /\ log = <<>>

Next ==
  \/ UploadPdf
  \/ ParsePdf
  \/ ExtractExpenses
  \/ InsertExpenses
  \/ AskQuestion
  \/ GenerateQuery
  \/ FetchDataStep
  \/ GenerateAnswer

Spec == Init /\ [][Next]_vars

\* ---------------------------------------------------------------- claims
InLog(e) == \E i \in 1..Len(log) : log[i] = e

\* A request of kind o has ended.
Ended(o) == pc = "idle" /\ op = o /\ outcome # "none"

\* The reply parses to a list of objects, each with the four keys.
IsRecordList(c) ==
  /\ ~JsonLoads(c).err
  /\ JsonLoads(c).v.t = "list"
  /\ \A i \in 1..Len(JsonLoads(c).v.items) : Subscriptable(JsonLoads(c).v.items[i])

RecordsOf(c) == JsonLoads(c).v.items

\* C1: an upload whose reply parses to N well-formed records returns them
\* and leaves the table as it was followed by exactly N new rows, one per
\* record, in order, whether or not equal records were already held.
C1_IngestAddsExactlyN ==
  (Ended("upload") /\ InLog("extract:ok") /\ IsRecordList(content))
    => /\ outcome = "returned"
       /\ Len(store) = Len(pre) + Len(RecordsOf(content))
       /\ SubSeq(store, 1, Len(pre)) = pre
       /\ \A k \in 1..Len(RecordsOf(content)) :
            /\ SameFields(store[Len(pre) + k], RecordsOf(content)[k].d)
            /\ store[Len(pre) + k].id = Len(pre) + k

\* The same N >= 1 records ingested into a table that already holds exactly
\* them: 2N rows.
C1_Witness ==
  /\ Ended("upload")
  /\ IsRecordList(content)
  /\ Len(pre) >= 1
  /\ Len(RecordsOf(content)) = Len(pre)
  /\ Len(store) = 2 * Len(pre)
  /\ \A k \in 1..Len(pre) : SameFields(pre[k], RecordsOf(content)[k].d)

\* C2: an upload whose reply is not a list of record objects ends with
\* "no records", without raising, and the table is as it was.
C2_UnparseableReplyYieldsNoRecords ==
  (Ended("upload") /\ InLog("extract:ok") /\ ~IsRecordList(content))
    => outcome = "no_expenses" /\ store = pre

\* The well-formed records among the items, in order.
WellFormed(items) == SelectSeq(items, Subscriptable)

\* C3: after a batch insert every well-formed record of the batch is in
\* the table, whatever the other items of the batch are.
C3_SiblingsPersisted ==
  (Ended("upload") /\ InLog("insert") /\ expenses.t = "list")
    => /\ Len(store) = Len(pre) + Len(WellFormed(expenses.items))
       /\ \A k \in 1..Len(WellFormed(expenses.items)) :
            SameFields(store[Len(pre) + k], WellFormed(expenses.items)[k].d)

\* C4: once the document-parse call or the extraction call has failed in
\* an upload, the upload has ended by raising, no insert was attempted and
\* the table is as it was.
C4_ExtractionFailureAborts ==
  (op = "upload" /\ (InLog("parse:fail") \/ InLog("extract:fail")))
    => /\ pc = "idle"
       /\ outcome = "raised"
       /\ ~InLog("insert")
       /\ store = pre

C4_Witness ==
  /\ Ended("upload")
  /\ log = <<"parse:ok", "extract:fail">>
  /\ pre # <<>>
  /\ store = pre

\* The synthesized query ran without error and returned no row.
RanWithoutRows ==
  /\ InLog("fetch")
  /\ ~FetchData(query, pre).raised
  /\ FetchData(query, pre).data = <<>>

HasTerminatedSelect(text) ==
  \E i \in Positions(text, SELECT) : \E j \in Positions(text, ";") : i < j

\* C6: generate_query returns nothing or a text that begins with 'SELECT '
\* and ends with ';'; it returns nothing for a reply without a terminated
\* SELECT; and when it returns nothing the query is never run.
C6_QueryIsTerminatedOrAbsent ==
  (op = "ask" /\ InLog("query:ok"))
    => /\ query = <<>> \/ (query[1] = SELECT /\ query[Len(query)] = ";")
       /\ ~HasTerminatedSelect(reply) => query = <<>>
       /\ query = <<>>
            => ~InLog("fetch") /\ pc = "idle" /\ outcome = "500_no_query"

\* A reply with a SELECT that nothing terminates.
C6_Witness ==
  /\ Ended("ask")
  /\ Positions(reply, SELECT) # {}
  /\ ~HasTerminatedSelect(reply)
  /\ outcome = "500_no_query"

\* From the first 'SELECT ' to the first ';' after it.
FirstStatementOf(text) ==
  LET i == Min(Positions(text, SELECT))
  IN SubSeq(text, i, Min({j \in Positions(text, ";") : j > i}))

\* C7: the returned query is the single statement from the first SELECT to
\* the first ';' after it, and holds exactly one ';'.
C7_SingleStatement ==
  (op = "ask" /\ query # <<>>)
    => /\ query = FirstStatementOf(reply)
       /\ Cardinality(Positions(query, ";")) = 1

\* C8: every row of the table has a date, an account, an amount and a
\* category, none of them NULL.
C8_NoNullColumns ==
  \A i \in 1..Len(store) :
    /\ store[i].date # NULL
    /\ store[i].account # NULL
    /\ store[i].amount # NULL
    /\ store[i].category # NULL

\* C9: while a question is answered and once it has ended, however it
\* ended, the table holds exactly the rows it held when the question came.
C9_QueryPipelineOnlyReads ==
  op = "ask" => store = pre

\* A reply whose text goes on, after the first statement, with a statement
\* that writes: refused, the rows all still there.
C9_Witness ==
  /\ Ended("ask")
  /\ pre # <<>>
  /\ Positions(query, DeleteStmt) # {}
  /\ InLog("fetch")
  /\ store = pre

RemoteCalls == {"parse", "extract", "query", "answer"}
Ok(c) == IF c = "parse" THEN "parse:ok" ELSE IF c = "extract" THEN "extract:ok"
         ELSE IF c = "query" THEN "query:ok" ELSE "answer:ok"
Fail(c) == IF c = "parse" THEN "parse:fail" ELSE IF c = "extract" THEN "extract:fail"
           ELSE IF c = "query" THEN "query:fail" ELSE "answer:fail"

\* C10: within one request each remote call is made at most once, and a
\* failed remote call is the last thing the request did: the request has
\* ended, with the failure as its outcome.
C10_NoRetries ==
  \A c \in RemoteCalls :
    /\ Cardinality({i \in 1..Len(log) : log[i] \in {Ok(c), Fail(c)}}) <= 1
    /\ \A i \in 1..Len(log) :
         log[i] = Fail(c)
           => /\ i = Len(log)
              /\ pc = "idle"
              /\ outcome = IF op = "upload" THEN "raised" ELSE "500_error"

C10_Witness ==
  /\ log = <<"query:ok", "fetch", "answer:fail">>
  /\ outcome = "500_error"
  /\ pc = "idle"

====
